---- MODULE Spec2Model ----
(***************************************************************************)
(* A model of django-boundaryservice:                                      *)
(*   - SluggedModel.save / SluggedModel.unique_slug   (models.py)          *)
(*   - BoundaryResource.alter_list_data_to_serialize,                      *)
(*     BoundaryResource.alter_detail_data_to_serialize,                    *)
(*     BoundaryResource.build_filters                  (resources.py)      *)
(*                                                                         *)
(* Text is a sequence of one-character strings, so that len(), slicing,    *)
(* '%s%s' concatenation, str.split and re.match are computed, not assumed. *)
(* Text is ASCII.                                                          *)
(*                                                                         *)
(* A call of a method of BoundaryResource first needs the class, that is   *)
(* resources.py imported.  The class statement evaluates models.CASCADE    *)
(* (line 41) in a module that binds no name `models`: the import raises    *)
(* NameError, and so does every such call.  The method bodies are          *)
(* translated all the same; they are what runs where the import succeeds.  *)
(***************************************************************************)
EXTENDS Integers, Sequences, FiniteSets, TLC

VARIABLES
    store,      \* the table of one entity type: primary key -> stored slug
    obj,        \* the in-memory model instances: [cls: its class, name: its name field, slug: self.slug]
    pc,         \* where each instance's save() stands
    loc,        \* unique_slug's locals: original_slug, slug, next
    result,     \* how each instance's last save() ended ("none": not saved since it was made or changed)
    log,        \* primary keys in the order of their first INSERT
    muts,       \* number of renames / slug clearings done so far
    GET,        \* request.GET of a boundary request: parameter -> value
    objects,    \* data['objects'] as dehydrated: the records before shaping
    listRes,    \* outcome of alter_list_data_to_serialize
    detailRes,  \* outcome of alter_detail_data_to_serialize on one record
    listAgain,  \* outcome of the list shaper applied to its own output
    detailAgain,\* outcome of the detail shaper applied to its own output
    filters,    \* the filters handed to build_filters: key -> value
    built       \* outcome of build_filters

slugVars == <<store, obj, pc, loc, result, log, muts>>

shapeVars == <<GET, objects, listRes, detailRes, listAgain, detailAgain>>

filterVars == <<filters, built>>

vars == <<store, obj, pc, loc, result, log, muts,
          GET, objects, listRes, detailRes, listAgain, detailAgain,
          filters, built>>

----------------------------------------------------------------------------
(* Bounds of the model *)

MaxEnt == 3      \* instances created in a sequential run
MaxProc == 2     \* instances whose save() calls run concurrently
MaxReEnt == 2    \* instances in a run with renames and cleared slugs
MaxMut == 1      \* renames / slug clearings in such a run

(* Program constants *)

SlugCeiling == 256
TruncateTo == 200
FirstSuffix == 2


----------------------------------------------------------------------------
(* Text helpers *)

Rep(c, n) == [i \in 1..n |-> c]

Min2(a, b) == IF a < b THEN a ELSE b
Max2(a, b) == IF a > b THEN a ELSE b

Ent == 1..Max2(MaxEnt, Max2(MaxProc, MaxReEnt))

DigitChars == <<"0", "1", "2", "3", "4", "5", "6", "7", "8", "9">>

IsDigit(c) == \E i \in 1..10 : DigitChars[i] = c

\* '%s' % n for a natural number n
RECURSIVE Str(_)
Str(n) == IF n < 10 THEN <<DigitChars[n + 1]>>
          ELSE Str(n \div 10) \o <<DigitChars[(n % 10) + 1]>>

\* s[:k] of Python
PySliceTo(s, k) ==
    IF k >= 0 THEN SubSeq(s, 1, Min2(k, Len(s)))
    ELSE SubSeq(s, 1, Max2(0, Len(s) + k))

----------------------------------------------------------------------------
(* django.template.defaultfilters.slugify, on ASCII text:                  *)
(*   value = re.sub('[^\w\s-]', '', value).strip().lower()                 *)
(*   return re.sub('[-\s]+', '-', value)                                   *)

LowerChars == <<"a", "b", "c", "d", "e", "f", "g", "h", "i", "j", "k", "l", "m",
                "n", "o", "p", "q", "r", "s", "t", "u", "v", "w", "x", "y", "z">>

UpperChars == <<"A", "B", "C", "D", "E", "F", "G", "H", "I", "J", "K", "L", "M",
                "N", "O", "P", "Q", "R", "S", "T", "U", "V", "W", "X", "Y", "Z">>

LowerSet == {LowerChars[i] : i \in 1..26}

UpperSet == {UpperChars[i] : i \in 1..26}

IsLower(c) == c \in LowerSet

IsUpper(c) == c \in UpperSet

\* what \s matches and str.strip() removes: space, \t, \n, \r, \f, and the
\* control characters \x0b, \x1c, \x1d, \x1e, \x1f (written raw below)
WhiteSpace == {" ", "\t", "\n", "\r", "\f", "", "", "", "", ""}

IsSpace(c) == c \in WhiteSpace

\* \w
IsWordChar(c) == IsLower(c) \/ IsUpper(c) \/ IsDigit(c) \/ c = "_"

\* str.lower(), one character
ToLower(c) == IF IsUpper(c) THEN LowerChars[CHOOSE i \in 1..26 : UpperChars[i] = c] ELSE c

\* str.lower()
Lower(s) == [i \in 1..Len(s) |-> ToLower(s[i])]

RECURSIVE LStrip(_)
LStrip(s) == IF s # <<>> /\ IsSpace(Head(s)) THEN LStrip(Tail(s)) ELSE s

RECURSIVE RStrip(_)
RStrip(s) == IF s # <<>> /\ IsSpace(s[Len(s)]) THEN RStrip(SubSeq(s, 1, Len(s) - 1)) ELSE s

Strip(s) == RStrip(LStrip(s))

IsSep(c) == c = "-" \/ IsSpace(c)

\* re.sub('[-\s]+', '-', s): every maximal run of hyphens/whitespace becomes one hyphen
CollapseSeps(s) ==
    LET marked == [i \in 1..Len(s) |->
                     IF IsSep(s[i])
                     THEN (IF i > 1 /\ IsSep(s[i - 1]) THEN "" ELSE "-")
                     ELSE s[i]]
    IN  SelectSeq(marked, LAMBDA c : c # "")

slugify(value) ==
    LET kept     == SelectSeq(value, LAMBDA c : IsWordChar(c) \/ IsSpace(c) \/ c = "-")
        stripped == Strip(kept)
        lowered  == Lower(stripped)
    IN  CollapseSeps(lowered)

----------------------------------------------------------------------------
(* Names, and the text unique_slug derives the slug from (lines 36-43)     *)

TextAB      == <<"A", " ", "b">>                    \* "A b"     -> a-b
TextABBang  == <<"a", "-", "\t", "b", "!">>         \* "a-\tb!"  -> a-b
TextBang    == <<"!", " ">>                         \* "! "      -> (empty)
TextLong    == Rep("a", SlugCeiling - 1)            \* 255 x "a"

TextLong254 == Rep("a", SlugCeiling - 2)            \* 254 x "a"

Texts == {TextAB, TextABBang, TextBang, TextLong}

\* the texts of a sequential creation run: with 254 characters the suffixes
\* -2 .. -9 just fit
SeqTexts == {TextAB, TextBang, TextLong, TextLong254}

\* the names an instance is renamed to: one of the same slug, one of none
RenameTexts == {TextABBang, TextBang}

\* the names given to instances of a class whose text does not follow the name
PlainNames == {TextAB, TextBang}

\* The classes of instance: Boundary, which like BoundarySet defines
\* __unicode__ only, and a SluggedModel subclass that defines get_slug_text()
\* to return its name.
Classes == {"Boundary", "WithSlugText"}

\* str(self) of a Boundary: __unicode__ is not what str() calls, so the
\* text is Model.__str__'s '%s object' % ClassName whatever the name is
BoundaryStr == <<"B", "o", "u", "n", "d", "a", "r", "y", " ",
                 "o", "b", "j", "e", "c", "t">>

\* slug_txt of lines 36-43
SlugText(o) == IF o.cls = "WithSlugText" THEN o.name ELSE BoundaryStr

\* the names a new instance of the class may be given
NamesOf(c, names) == IF c = "WithSlugText" THEN names ELSE names \cap PlainNames

----------------------------------------------------------------------------
(* The table *)

\* queryset.filter(slug=s).count()
SlugCount(tbl, s) == Cardinality({p \in DOMAIN tbl : tbl[p] = s})

Slugs(tbl) == {tbl[p] : p \in DOMAIN tbl}

EmptyStore == [p \in {} |-> <<>>]

\* The table left by earlier sequential saves: nine instances whose text is
\* 255 x "a" (the base, then its first 198 characters with -2 .. -9), and one
\* whose text is "a b 2"; for a class whose text is fixed, left by saves of
\* instances constructed with these slugs (line 34 keeps a given slug)
PrefabRows == 101..110
PrefabStore ==
    [p \in PrefabRows |->
        IF p = 101 THEN TextLong
        ELSE IF p = 110 THEN <<"a", "-", "b", "-", "2">>
        ELSE Rep("a", TruncateTo - 2) \o <<"-">> \o Str(p - 100)]

InitStores == {EmptyStore, PrefabStore}

----------------------------------------------------------------------------
(* SluggedModel.unique_slug, the body of the while loop (lines 52-57) *)

SuffixFor(next) == <<"-">> \o Str(next)

\* mutant: the length check is lost, the suffix is always appended to the whole base
NeedsTruncationNever(slug, end) == FALSE

NeedsTruncation(slug, end) == Len(slug) + Len(end) > SlugCeiling

TruncatedBase(slug, end) ==
    IF NeedsTruncation(slug, end) THEN PySliceTo(slug, TruncateTo - Len(end)) ELSE slug

LoopBody(original_slug, next) ==
    LET end == SuffixFor(next)
    IN  TruncatedBase(original_slug, end) \o end

\* mutant: the loop stops at the first suffix without asking the table
LoopCondNoQuery(tbl, slug) == slug = <<>>

\* the while condition (line 51)
LoopCond(tbl, slug) == slug = <<>> \/ SlugCount(tbl, slug) # 0

\* line 46
BaseIsFree(tbl, original_slug) == SlugCount(tbl, original_slug) = 0

\* mutant: the slug is regenerated on every save
HasSlugIgnored(o) == FALSE

\* line 34: "if it's already got a slug, do nothing"
HasSlug(o) == o.slug # <<>>

\* mutant: the blank check of save() is lost
SlugIsBlankNever(slug) == FALSE

\* line 27
SlugIsBlank(slug) == slug = <<>>

NoLoc == [original_slug |-> <<>>, slug |-> <<>>, next |-> 0]

----------------------------------------------------------------------------
(* Lifecycle of the instances *)

NoObj == [cls |-> "none", name |-> <<>>, slug |-> <<>>]

\* one table holds the rows of one class
SameClass(c) == \A f \in Ent : pc[f] # "absent" => obj[f].cls = c

InProgress == {"loop", "insert"}

Quiet == \A e \in Ent : pc[e] \notin InProgress

\* a new instance of class c named t, slug field at its default ''
Create(e, c, t) ==
    /\ pc[e] = "absent"
    /\ IF e = 1 THEN TRUE ELSE pc[e - 1] # "absent"
    /\ SameClass(c)
    /\ obj' = [obj EXCEPT ![e] = [cls |-> c, name |-> t, slug |-> <<>>]]
    /\ pc' = [pc EXCEPT ![e] = "idle"]
    /\ UNCHANGED <<store, loc, result, log, muts>>
    /\ UNCHANGED <<shapeVars, filterVars>>

\* the instance's name is changed in memory; whether its text follows is
\* SlugText's matter
Rename(e, t) ==
    /\ pc[e] = "idle"
    /\ muts < MaxMut
    /\ obj[e].name # t
    /\ obj' = [obj EXCEPT ![e].name = t]
    /\ result' = [result EXCEPT ![e] = "none"]
    /\ muts' = muts + 1
    /\ UNCHANGED <<store, pc, loc, log>>
    /\ UNCHANGED <<shapeVars, filterVars>>

\* the slug of an already stored instance is cleared in memory
ClearSlug(e) ==
    /\ pc[e] = "idle"
    /\ muts < MaxMut
    /\ e \in DOMAIN store
    /\ obj[e].slug # <<>>
    /\ obj' = [obj EXCEPT ![e].slug = <<>>]
    /\ result' = [result EXCEPT ![e] = "none"]
    /\ muts' = muts + 1
    /\ UNCHANGED <<store, pc, loc, log>>
    /\ UNCHANGED <<shapeVars, filterVars>>

\* save(): lines 26-27 with self.slug decided; raises or goes on to line 28
Validate(e, slug) ==
    IF SlugIsBlank(slug)
    THEN /\ pc' = [pc EXCEPT ![e] = "idle"]
         /\ result' = [result EXCEPT ![e] = "ValueError"]
    ELSE /\ pc' = [pc EXCEPT ![e] = "insert"]
         /\ result' = [result EXCEPT ![e] = "none"]

\* save() up to the first pass of the while loop: lines 25-27, 34-50
SaveBegin(e) ==
    /\ pc[e] = "idle"
    /\ LET original_slug == slugify(SlugText(obj[e]))
       IN  IF HasSlug(obj[e])
           THEN /\ Validate(e, obj[e].slug)
                /\ UNCHANGED <<obj, loc>>
           ELSE IF BaseIsFree(store, original_slug)
           THEN /\ obj' = [obj EXCEPT ![e].slug = original_slug]
                /\ Validate(e, original_slug)
                /\ UNCHANGED loc
           ELSE /\ loc' = [loc EXCEPT ![e] = [original_slug |-> original_slug,
                                               slug |-> <<>>,
                                               next |-> FirstSuffix]]
                /\ pc' = [pc EXCEPT ![e] = "loop"]
                /\ result' = [result EXCEPT ![e] = "none"]
                /\ UNCHANGED obj
    /\ UNCHANGED <<store, log, muts>>
    /\ UNCHANGED <<shapeVars, filterVars>>

\* one evaluation of the while condition, then the body or the exit: lines 51-58, 27
LoopStep(e) ==
    /\ pc[e] = "loop"
    /\ IF LoopCond(store, loc[e].slug)
       THEN /\ loc' = [loc EXCEPT ![e].slug = LoopBody(loc[e].original_slug, loc[e].next),
                                  ![e].next = loc[e].next + 1]
            /\ UNCHANGED <<obj, pc, result>>
       ELSE /\ obj' = [obj EXCEPT ![e].slug = loc[e].slug]
            /\ Validate(e, loc[e].slug)
            /\ loc' = [loc EXCEPT ![e] = NoLoc]
    /\ UNCHANGED <<store, log, muts>>
    /\ UNCHANGED <<shapeVars, filterVars>>

\* super().save(): INSERT, or UPDATE of the instance's own row (line 28)
WriteRow(tbl, e, slug) ==
    [p \in DOMAIN tbl \cup {e} |-> IF p = e THEN slug ELSE tbl[p]]

Insert(e) ==
    /\ pc[e] = "insert"
    /\ store' = WriteRow(store, e, obj[e].slug)
    /\ log' = IF e \in DOMAIN store THEN log ELSE Append(log, e)
    /\ pc' = [pc EXCEPT ![e] = "idle"]
    /\ result' = [result EXCEPT ![e] = "saved"]
    /\ UNCHANGED <<obj, loc, muts>>
    /\ UNCHANGED <<shapeVars, filterVars>>

----------------------------------------------------------------------------
(* Requests, and the str methods the resource code uses on their values.   *)
(* A parameter value is a sequence of atoms: "," and " " are characters,   *)
(* every other atom is a run of characters holding neither.                *)

\* dict.get(key, default)
DictGet(d, key, default) == IF key \in DOMAIN d THEN d[key] ELSE default

HasComma(s) == \E i \in 1..Len(s) : s[i] = ","

FirstComma(s) == CHOOSE i \in 1..Len(s) : s[i] = "," /\ \A j \in 1..(i - 1) : s[j] # ","

\* s.split(','): always at least one item, '' for the empty string
RECURSIVE Split(_)
Split(s) ==
    IF ~HasComma(s) THEN <<s>>
    ELSE <<SubSeq(s, 1, FirstComma(s) - 1)>> \o Split(SubSeq(s, FirstComma(s) + 1, Len(s)))

----------------------------------------------------------------------------
(* Importing resources.py *)

\* the names bound at module level when line 41 is reached: the imports of
\* lines 1-18 and the class of line 21
ModuleNames ==
    {"re", "settings", "D", "fields", "Serializer", "ALL", "ALL_WITH_RELATIONS",
     "Polygon", "NoOpApiKeyAuthentication", "BoundarySet", "Boundary",
     "SluggedResource", "AnonymousThrottle", "CannonballCache", "BoundarySetResource"}

\* the names the class body of BoundaryResource evaluates at line 41
Line41Names == {"fields", "BoundarySetResource", "models"}

Raised(exc) == [status |-> exc]

\* import boundaryservice.resources (urls.py line 4)
ImportResources == IF Line41Names \subseteq ModuleNames THEN "ok" ELSE "NameError"

\* the outcome of a call of a BoundaryResource method: that of its body if
\* the class could be had, the import's exception if not
OnResource(outcome) == IF ImportResources = "ok" THEN outcome ELSE Raised(ImportResources)

----------------------------------------------------------------------------
(* BoundaryResource: the shapers *)

\* the keys of a dehydrated boundary: the model's fields without id and
\* display_name (Meta.excludes), slug (SluggedResource), the declared set,
\* and the resource_uri every ModelResource adds
RecordFields == {"slug", "set", "kind", "external_id", "name", "metadata",
                 "shape", "simple_shape", "centroid", "resource_uri"}

\* the bundle.data of record i: every field, each with its own value
Dehydrated(i) == [f \in RecordFields |-> <<i, f>>]

DelKey(d, k) == [f \in DOMAIN d \ {k} |-> d[f]]

\* del d[k]: KeyError when k is no key of d
Del(r, k) ==
    IF r.err THEN r
    ELSE IF k \in DOMAIN r.data THEN [err |-> FALSE, data |-> DelKey(r.data, k)]
    ELSE [err |-> TRUE, data |-> r.data]

\* the key an item of the excludes list is: the atoms joined
IsKeyOf(item, d) == Len(item) = 1 /\ item[1] \in DOMAIN d

\* try: del obj.data[exclude]  except: pass     (lines 79-82)
ExcludeOne(d, item) ==
    IF IsKeyOf(item, d) THEN [err |-> FALSE, data |-> DelKey(d, item[1])]
    ELSE [err |-> FALSE, data |-> d]

\* lines 69-73 and 93-97: the two del statements, in order
TrimShapes(d, shape_type) ==
    LET r0 == [err |-> FALSE, data |-> d]
        r1 == IF shape_type # "simple" THEN Del(r0, "simple_shape") ELSE r0
    IN  IF shape_type # "full" THEN Del(r1, "shape") ELSE r1

\* lines 75-82: every item of the excludes list, on every record
RECURSIVE ApplyExcludes(_, _)
ApplyExcludes(rs, items) ==
    IF items = <<>> THEN rs
    ELSE ApplyExcludes(
            [i \in 1..Len(rs) |->
                IF rs[i].err THEN rs[i] ELSE ExcludeOne(rs[i].data, Head(items))],
            Tail(items))

\* request.GET.get('excludes', "").strip().split(',')
ExcludesList(get) == Split(Strip(DictGet(get, "excludes", <<>>)))

ShapeTypeOf(get) == DictGet(get, "shape_type", "simple")

\* alter_list_data_to_serialize (lines 61-84): the for loop stops at the first
\* KeyError, leaving the later records as they were
AlterList(get, objs) ==
    LET shape_type == ShapeTypeOf(get)
        trimmed    == [i \in 1..Len(objs) |-> TrimShapes(objs[i], shape_type)]
        failed     == {i \in 1..Len(objs) : trimmed[i].err}
        firstFail  == CHOOSE i \in failed : \A j \in failed : i <= j
        excluded   == ApplyExcludes(trimmed, ExcludesList(get))
    IN  IF failed # {}
        THEN [status  |-> "KeyError",
              objects |-> [i \in 1..Len(objs) |->
                             IF i <= firstFail THEN trimmed[i].data ELSE objs[i]]]
        ELSE IF \E i \in 1..Len(objs) : excluded[i].err
        THEN [status  |-> "KeyError",
              objects |-> [i \in 1..Len(objs) |-> excluded[i].data]]
        ELSE [status  |-> "ok",
              objects |-> [i \in 1..Len(objs) |-> excluded[i].data]]

\* alter_detail_data_to_serialize (lines 86-99)
AlterDetail(get, d) ==
    LET r == TrimShapes(d, ShapeTypeOf(get))
    IN  [status |-> IF r.err THEN "KeyError" ELSE "ok", data |-> r.data]

NotRun == [status |-> "not run"]

MaxRecords == 2

ShapeTypes == {"simple", "full", "none", "SIMPLE"}

ExcludesValues ==
    { <<>>,
      <<"name">>,
      <<"bogus_field">>,
      <<"shape">>,
      <<"simple_shape", ",", "name">>,
      <<"\t", "name", ",", " ", "kind">>,
      <<"bogus_field", ",", "shape", ",", "name">>,
      <<"kind", ",", ",", "kind">> }

\* every request names its format; shape_type and excludes may be absent
Requests ==
    {[format |-> "json"]}
    \cup {[format |-> "json", shape_type |-> st] : st \in ShapeTypes}
    \cup {[format |-> "json", excludes |-> x] : x \in ExcludesValues}
    \cup {[format |-> "json", shape_type |-> st, excludes |-> x] :
             st \in ShapeTypes, x \in ExcludesValues}

\* a list request: the resource is imported and
\* alter_list_data_to_serialize(request, data) called
ShapeList ==
    /\ listRes = NotRun
    /\ listRes' = OnResource(AlterList(GET, objects))
    /\ UNCHANGED <<GET, objects, detailRes, listAgain, detailAgain>>
    /\ UNCHANGED <<slugVars, filterVars>>

\* a detail request for record i: the resource is imported and
\* alter_detail_data_to_serialize(request, bundle) called
ShapeDetail(i) ==
    /\ detailRes = NotRun
    /\ detailRes' = [of |-> i] @@ OnResource(AlterDetail(GET, objects[i]))
    /\ UNCHANGED <<GET, objects, listRes, listAgain, detailAgain>>
    /\ UNCHANGED <<slugVars, filterVars>>

\* the list shaper called again on the records as the first call left them
ShapeListAgain ==
    /\ listRes # NotRun
    /\ listAgain = NotRun
    /\ listAgain' = OnResource(AlterList(GET, IF listRes.status = "ok"
                                               THEN listRes.objects ELSE objects))
    /\ UNCHANGED <<GET, objects, listRes, detailRes, detailAgain>>
    /\ UNCHANGED <<slugVars, filterVars>>

\* the detail shaper called again on the record as the first call left it
ShapeDetailAgain ==
    /\ detailRes # NotRun
    /\ detailAgain = NotRun
    /\ detailAgain' = OnResource(AlterDetail(GET, IF detailRes.status = "ok"
                                                   THEN detailRes.data
                                                   ELSE objects[detailRes.of]))
    /\ UNCHANGED <<GET, objects, listRes, detailRes, listAgain>>
    /\ UNCHANGED <<slugVars, filterVars>>

----------------------------------------------------------------------------
(* BoundaryResource.build_filters *)

\* int(numeral) for a run of decimal digits
DigitValue(c) == (CHOOSE i \in 1..10 : DigitChars[i] = c) - 1

RECURSIVE IntOf(_)
IntOf(ds) == IF ds = <<>> THEN 0
             ELSE IntOf(SubSeq(ds, 1, Len(ds) - 1)) * 10 + DigitValue(ds[Len(ds)])

\* re.match('([0-9]+)', s): the longest run of digits s starts with; <<>> for no match
RECURSIVE LeadingDigits(_)
LeadingDigits(s) ==
    IF s # <<>> /\ IsDigit(Head(s)) THEN <<Head(s)>> \o LeadingDigits(Tail(s)) ELSE <<>>

\* 'POINT(%s %s)' % (lon, lat)
WktPoint(lon, lat) == <<"POINT(">> \o lon \o <<" ">> \o lat \o <<")">>

\* Distance.UNITS of django.contrib.gis.measure (the keys)
DistanceUnits ==
    { <<"c", "h", "a", "i", "n">>,
      <<"c", "h", "a", "i", "n", "_", "b", "e", "n", "o", "i", "t">>,
      <<"c", "h", "a", "i", "n", "_", "s", "e", "a", "r", "s">>,
      <<"b", "r", "i", "t", "i", "s", "h", "_", "c", "h", "a", "i", "n", "_", "b", "e", "n", "o", "i", "t">>,
      <<"b", "r", "i", "t", "i", "s", "h", "_", "c", "h", "a", "i", "n", "_", "s", "e", "a", "r", "s">>,
      <<"b", "r", "i", "t", "i", "s", "h", "_", "c", "h", "a", "i", "n", "_", "s", "e", "a", "r", "s", "_", "t", "r", "u", "n", "c", "a", "t", "e", "d">>,
      <<"c", "m">>,
      <<"b", "r", "i", "t", "i", "s", "h", "_", "f", "t">>,
      <<"b", "r", "i", "t", "i", "s", "h", "_", "y", "d">>,
      <<"c", "l", "a", "r", "k", "e", "_", "f", "t">>,
      <<"c", "l", "a", "r", "k", "e", "_", "l", "i", "n", "k">>,
      <<"f", "a", "t", "h", "o", "m">>,
      <<"f", "t">>,
      <<"g", "e", "r", "m", "a", "n", "_", "m">>,
      <<"g", "o", "l", "d", "_", "c", "o", "a", "s", "t", "_", "f", "t">>,
      <<"i", "n", "d", "i", "a", "n", "_", "y", "d">>,
      <<"i", "n", "c", "h">>,
      <<"k", "m">>,
      <<"l", "i", "n", "k">>,
      <<"l", "i", "n", "k", "_", "b", "e", "n", "o", "i", "t">>,
      <<"l", "i", "n", "k", "_", "s", "e", "a", "r", "s">>,
      <<"m">>,
      <<"m", "i">>,
      <<"m", "m">>,
      <<"n", "m">>,
      <<"n", "m", "_", "u", "k">>,
      <<"r", "o", "d">>,
      <<"s", "e", "a", "r", "s", "_", "y", "d">>,
      <<"s", "u", "r", "v", "e", "y", "_", "f", "t">>,
      <<"u", "m">>,
      <<"y", "d">> }

\* Distance.ALIAS: <<alias, unit>>
DistanceAlias ==
    { <<<<"c", "e", "n", "t", "i", "m", "e", "t", "e", "r">>,
         <<"c", "m">>>>,
      <<<<"f", "o", "o", "t">>,
         <<"f", "t">>>>,
      <<<<"i", "n", "c", "h", "e", "s">>,
         <<"i", "n", "c", "h">>>>,
      <<<<"k", "i", "l", "o", "m", "e", "t", "e", "r">>,
         <<"k", "m">>>>,
      <<<<"k", "i", "l", "o", "m", "e", "t", "r", "e">>,
         <<"k", "m">>>>,
      <<<<"m", "e", "t", "e", "r">>,
         <<"m">>>>,
      <<<<"m", "e", "t", "r", "e">>,
         <<"m">>>>,
      <<<<"m", "i", "c", "r", "o", "m", "e", "t", "e", "r">>,
         <<"u", "m">>>>,
      <<<<"m", "i", "c", "r", "o", "m", "e", "t", "r", "e">>,
         <<"u", "m">>>>,
      <<<<"m", "i", "l", "l", "i", "m", "e", "t", "e", "r">>,
         <<"m", "m">>>>,
      <<<<"m", "i", "l", "l", "i", "m", "e", "t", "r", "e">>,
         <<"m", "m">>>>,
      <<<<"m", "i", "l", "e">>,
         <<"m", "i">>>>,
      <<<<"y", "a", "r", "d">>,
         <<"y", "d">>>>,
      <<<<"B", "r", "i", "t", "i", "s", "h", " ", "c", "h", "a", "i", "n", " ", "(", "B", "e", "n", "o", "i", "t", " ", "1", "8", "9", "5", " ", "B", ")">>,
         <<"b", "r", "i", "t", "i", "s", "h", "_", "c", "h", "a", "i", "n", "_", "b", "e", "n", "o", "i", "t">>>>,
      <<<<"B", "r", "i", "t", "i", "s", "h", " ", "c", "h", "a", "i", "n", " ", "(", "S", "e", "a", "r", "s", " ", "1", "9", "2", "2", ")">>,
         <<"b", "r", "i", "t", "i", "s", "h", "_", "c", "h", "a", "i", "n", "_", "s", "e", "a", "r", "s">>>>,
      <<<<"B", "r", "i", "t", "i", "s", "h", " ", "c", "h", "a", "i", "n", " ", "(", "S", "e", "a", "r", "s", " ", "1", "9", "2", "2", " ", "t", "r", "u", "n", "c", "a", "t", "e", "d", ")">>,
         <<"b", "r", "i", "t", "i", "s", "h", "_", "c", "h", "a", "i", "n", "_", "s", "e", "a", "r", "s", "_", "t", "r", "u", "n", "c", "a", "t", "e", "d">>>>,
      <<<<"B", "r", "i", "t", "i", "s", "h", " ", "f", "o", "o", "t", " ", "(", "S", "e", "a", "r", "s", " ", "1", "9", "2", "2", ")">>,
         <<"b", "r", "i", "t", "i", "s", "h", "_", "f", "t">>>>,
      <<<<"B", "r", "i", "t", "i", "s", "h", " ", "f", "o", "o", "t">>,
         <<"b", "r", "i", "t", "i", "s", "h", "_", "f", "t">>>>,
      <<<<"B", "r", "i", "t", "i", "s", "h", " ", "y", "a", "r", "d", " ", "(", "S", "e", "a", "r", "s", " ", "1", "9", "2", "2", ")">>,
         <<"b", "r", "i", "t", "i", "s", "h", "_", "y", "d">>>>,
      <<<<"B", "r", "i", "t", "i", "s", "h", " ", "y", "a", "r", "d">>,
         <<"b", "r", "i", "t", "i", "s", "h", "_", "y", "d">>>>,
      <<<<"C", "l", "a", "r", "k", "e", "'", "s", " ", "F", "o", "o", "t">>,
         <<"c", "l", "a", "r", "k", "e", "_", "f", "t">>>>,
      <<<<"C", "l", "a", "r", "k", "e", "'", "s", " ", "l", "i", "n", "k">>,
         <<"c", "l", "a", "r", "k", "e", "_", "l", "i", "n", "k">>>>,
      <<<<"C", "h", "a", "i", "n", " ", "(", "B", "e", "n", "o", "i", "t", ")">>,
         <<"c", "h", "a", "i", "n", "_", "b", "e", "n", "o", "i", "t">>>>,
      <<<<"C", "h", "a", "i", "n", " ", "(", "S", "e", "a", "r", "s", ")">>,
         <<"c", "h", "a", "i", "n", "_", "s", "e", "a", "r", "s">>>>,
      <<<<"F", "o", "o", "t", " ", "(", "I", "n", "t", "e", "r", "n", "a", "t", "i", "o", "n", "a", "l", ")">>,
         <<"f", "t">>>>,
      <<<<"G", "e", "r", "m", "a", "n", " ", "l", "e", "g", "a", "l", " ", "m", "e", "t", "r", "e">>,
         <<"g", "e", "r", "m", "a", "n", "_", "m">>>>,
      <<<<"G", "o", "l", "d", " ", "C", "o", "a", "s", "t", " ", "f", "o", "o", "t">>,
         <<"g", "o", "l", "d", "_", "c", "o", "a", "s", "t", "_", "f", "t">>>>,
      <<<<"I", "n", "d", "i", "a", "n", " ", "y", "a", "r", "d">>,
         <<"i", "n", "d", "i", "a", "n", "_", "y", "d">>>>,
      <<<<"L", "i", "n", "k", " ", "(", "B", "e", "n", "o", "i", "t", ")">>,
         <<"l", "i", "n", "k", "_", "b", "e", "n", "o", "i", "t">>>>,
      <<<<"L", "i", "n", "k", " ", "(", "S", "e", "a", "r", "s", ")">>,
         <<"l", "i", "n", "k", "_", "s", "e", "a", "r", "s">>>>,
      <<<<"N", "a", "u", "t", "i", "c", "a", "l", " ", "M", "i", "l", "e">>,
         <<"n", "m">>>>,
      <<<<"N", "a", "u", "t", "i", "c", "a", "l", " ", "M", "i", "l", "e", " ", "(", "U", "K", ")">>,
         <<"n", "m", "_", "u", "k">>>>,
      <<<<"U", "S", " ", "s", "u", "r", "v", "e", "y", " ", "f", "o", "o", "t">>,
         <<"s", "u", "r", "v", "e", "y", "_", "f", "t">>>>,
      <<<<"U", ".", "S", ".", " ", "F", "o", "o", "t">>,
         <<"s", "u", "r", "v", "e", "y", "_", "f", "t">>>>,
      <<<<"Y", "a", "r", "d", " ", "(", "I", "n", "d", "i", "a", "n", ")">>,
         <<"i", "n", "d", "i", "a", "n", "_", "y", "d">>>>,
      <<<<"Y", "a", "r", "d", " ", "(", "S", "e", "a", "r", "s", ")">>,
         <<"s", "e", "a", "r", "s", "_", "y", "d">>>> }

\* Distance.LALIAS: the aliases in lower case
DistanceLAlias == {<<Lower(a[1]), a[2]>> : a \in DistanceAlias}

AliasUnit(aliases, name) == (CHOOSE a \in aliases : a[1] = name)[2]

\* MeasureBase.default_units for one keyword: the unit the distance is held
\* in, <<>> for 'Unknown unit type'
UnitOf(unit) ==
    IF unit \in DistanceUnits THEN unit
    ELSE IF \E a \in DistanceAlias : a[1] = unit THEN AliasUnit(DistanceAlias, unit)
    ELSE IF Lower(unit) \in DistanceUnits THEN Lower(unit)
    ELSE IF \E a \in DistanceLAlias : a[1] = Lower(unit)
         THEN AliasUnit(DistanceLAlias, Lower(unit))
    ELSE <<>>

KwSelf == <<"s", "e", "l", "f">>

KwDefaultUnit == <<"d", "e", "f", "a", "u", "l", "t", "_", "u", "n", "i", "t">>

\* lines 110-113
WithSets(r, f) ==
    IF r.status # "ok" \/ "sets" \notin DOMAIN f THEN r
    ELSE [r EXCEPT !.orm = [sets |-> Split(f["sets"])] @@ r.orm]

\* lines 115-119: lat, lon = ...split(',') raises ValueError unless two items
WithContains(r, f) ==
    IF r.status # "ok" \/ "contains" \notin DOMAIN f THEN r
    ELSE LET parts == Split(f["contains"])
         IN  IF Len(parts) # 2 THEN Raised("ValueError")
             ELSE [r EXCEPT !.orm = [contains |-> WktPoint(parts[2], parts[1])] @@ r.orm]

\* D(**{unit: numeral}), i.e. MeasureBase.__init__(self, default_unit=None,
\* **kwargs): the keyword 'self' collides with the receiver (TypeError), the
\* keyword 'default_unit' is taken by the parameter of that name and leaves
\* no measure (D(m=0)); any other keyword is a unit, AttributeError when
\* unknown
D(unit, numeral) ==
    IF unit = KwSelf THEN Raised("TypeError")
    ELSE IF unit = KwDefaultUnit THEN [status |-> "ok", magnitude |-> 0, unit |-> <<"m">>]
    ELSE IF UnitOf(unit) = <<>> THEN Raised("AttributeError")
    ELSE [status |-> "ok", magnitude |-> numeral, unit |-> UnitOf(unit)]

\* lines 124-129: re.match(...) is None without a leading digit, and
\* None.group raises AttributeError
NearDistance(range) ==
    LET numeral == LeadingDigits(range)
        unit    == SubSeq(range, Len(numeral) + 1, Len(range))
    IN  IF numeral = <<>> THEN Raised("AttributeError")
        ELSE D(unit, IntOf(numeral))

\* lines 121-129: lat, lon, range = ...split(',') raises ValueError unless three items
WithNear(r, f) ==
    IF r.status # "ok" \/ "near" \notin DOMAIN f THEN r
    ELSE LET parts == Split(f["near"])
         IN  IF Len(parts) # 3 THEN Raised("ValueError")
             ELSE LET d == NearDistance(parts[3])
                  IN  IF d.status # "ok" THEN Raised(d.status)
                      ELSE [r EXCEPT !.orm =
                               [near |-> [point     |-> WktPoint(parts[2], parts[1]),
                                          magnitude |-> d.magnitude,
                                          unit      |-> d.unit]] @@ r.orm]

\* lines 131-135: Boundary.objects.get(slug=slug)
WithIntersects(r, f, tbl) ==
    IF r.status # "ok" \/ "intersects" \notin DOMAIN f THEN r
    ELSE LET n == SlugCount(tbl, f["intersects"])
         IN  IF n = 0 THEN Raised("DoesNotExist")
             ELSE IF n > 1 THEN Raised("MultipleObjectsReturned")
             ELSE [r EXCEPT !.orm =
                      [intersects |-> <<"shape of",
                                        CHOOSE p \in DOMAIN tbl : tbl[p] = f["intersects"]>>]
                      @@ r.orm]

\* build_filters (lines 101-137); the filters of the parent class are not modelled
BuildFilters(f, tbl) ==
    LET r0 == [status |-> "ok", orm |-> [resource |-> "boundary"]]
    IN  WithIntersects(WithNear(WithContains(WithSets(r0, f), f), f), f, tbl)

Lat == <<"41.88">>
Lon == <<"-87.63">>

NearValues ==
    {Lat \o <<",">> \o Lon \o <<",">> \o range :
        range \in { <<"5", "m", "i">>, <<"m", "i">>, <<"1", "2", "k", "m">>, <<"5">>,
                    <<"0", "5", "m", "i">>, <<"m", "5">>, <<>>, <<"5", "x", "x">>,
                    <<"5", "M", "I">>, <<"5", "y", "d">>, <<"5", "M", "i", "l", "e">> }}
    \cup {Lat \o <<",">> \o Lon}

ContainsValues == {Lat \o <<",">> \o Lon, Lat}

SetsValues == {<<"wards">>, <<"wards", ",", "parks">>}

IntersectsValues == {<<"a", "-", "b", "-", "2">>, <<"a", "-", "b">>}

RECURSIVE WithParam(_, _, _)
WithParam(base, key, values) ==
    base \cup {(key :> v) @@ b : v \in values, b \in base}

FilterInputs ==
    WithParam(WithParam(WithParam(WithParam({[format |-> "json"]},
        "sets", SetsValues), "contains", ContainsValues),
        "near", NearValues), "intersects", IntersectsValues)

\* a filtered list request: the resource is imported and
\* build_filters(filters) called
Build ==
    /\ built = NotRun
    /\ built' = OnResource(BuildFilters(filters, store))
    /\ UNCHANGED filters
    /\ UNCHANGED <<slugVars, shapeVars>>

----------------------------------------------------------------------------
(* The specifications *)

NoObjs == [e \in Ent |-> NoObj]
NoPcs == [e \in Ent |-> "absent"]
NoLocs == [e \in Ent |-> NoLoc]
NoResults == [e \in Ent |-> "none"]
NoRequest == [format |-> "json"]

(* Concurrent creation: save() calls of different instances interleave at  *)
(* every database query                                                    *)

Init ==
    /\ store \in InitStores
    /\ obj = NoObjs /\ pc = NoPcs /\ loc = NoLocs /\ result = NoResults
    /\ log = <<>> /\ muts = 0
    /\ GET = NoRequest /\ objects = <<>>
    /\ listRes = NotRun /\ detailRes = NotRun
    /\ listAgain = NotRun /\ detailAgain = NotRun
    /\ filters = NoRequest /\ built = NotRun

Next ==
    \/ \E e \in 1..MaxProc, c \in Classes : \E t \in NamesOf(c, Texts) : Create(e, c, t)
    \/ \E e \in Ent : SaveBegin(e)
    \/ \E e \in Ent : LoopStep(e)
    \/ \E e \in Ent : Insert(e)

Spec == Init /\ [][Next]_vars

(* Sequential creation: each save() completes before anything else begins *)

SeqNext ==
    \/ \E e \in 1..MaxEnt, c \in Classes : \E t \in NamesOf(c, SeqTexts) : Quiet /\ Create(e, c, t)
    \/ \E e \in Ent : Quiet /\ SaveBegin(e)
    \/ \E e \in Ent : LoopStep(e)
    \/ \E e \in Ent : Insert(e)

SpecSeq == Init /\ [][SeqNext]_vars

(* Sequential use with renames and cleared slugs between the saves *)

ReNext ==
    \/ \E e \in 1..MaxReEnt, c \in Classes : \E t \in NamesOf(c, Texts) : Quiet /\ Create(e, c, t)
    \/ \E e \in Ent, t \in RenameTexts : Quiet /\ Rename(e, t)
    \/ \E e \in Ent : Quiet /\ ClearSlug(e)
    \/ \E e \in Ent : Quiet /\ SaveBegin(e)
    \/ \E e \in Ent : LoopStep(e)
    \/ \E e \in Ent : Insert(e)

SpecRe == Init /\ [][ReNext]_vars

(* The shapers, applied to every request and list of records *)

ShapeInit ==
    /\ GET \in Requests
    /\ objects \in {[i \in 1..n |-> Dehydrated(i)] : n \in 0..MaxRecords}
    /\ listRes = NotRun /\ detailRes = NotRun
    /\ listAgain = NotRun /\ detailAgain = NotRun
    /\ store = PrefabStore
    /\ obj = NoObjs /\ pc = NoPcs /\ loc = NoLocs /\ result = NoResults
    /\ log = <<>> /\ muts = 0
    /\ filters = NoRequest /\ built = NotRun

ShapeNext ==
    \/ ShapeList
    \/ \E i \in 1..Len(objects) : ShapeDetail(i)
    \/ ShapeListAgain
    \/ ShapeDetailAgain

SpecShape == ShapeInit /\ [][ShapeNext]_vars

(* build_filters, applied to every set of filters, over a populated table *)

FilterInit ==
    /\ filters \in FilterInputs
    /\ built = NotRun
    /\ store = PrefabStore
    /\ obj = NoObjs /\ pc = NoPcs /\ loc = NoLocs /\ result = NoResults
    /\ log = <<>> /\ muts = 0
    /\ GET = NoRequest /\ objects = <<>>
    /\ listRes = NotRun /\ detailRes = NotRun
    /\ listAgain = NotRun /\ detailAgain = NotRun

FilterNext == Build

SpecFilter == FilterInit /\ [][FilterNext]_vars

----------------------------------------------------------------------------
(* Properties of the slug resolver *)

RangeOf(s) == {s[i] : i \in 1..Len(s)}

NoDuplicateSlugs(tbl) == \A p, q \in DOMAIN tbl : p # q => tbl[p] # tbl[q]

\* base for the first instance, base-k for the k-th
Pattern(base, k) == IF k = 1 THEN base ELSE base \o <<"-">> \o Str(k)

\* the instances of text t in the order of their creation (first INSERT)
Group(t) == SelectSeq(log, LAMBDA e : SlugText(obj[e]) = t)

\* the candidate texts of a sequential creation run
CandidateTexts == SeqTexts \cup {BoundaryStr}

\* C1: in a sequential run, the N instances created with the same candidate
\* text have pairwise distinct stored slugs; and if none of base, base-2, ..,
\* base-N is held by a row outside the group and none needs truncation, the
\* k-th created instance holds exactly the k-th of them.
C1_SequentialSlugs ==
    \A t \in CandidateTexts :
        LET G       == Group(t)
            N       == Len(G)
            base    == slugify(t)
            outside == {store[p] : p \in DOMAIN store \ RangeOf(G)}
        IN  /\ \A i, j \in 1..N : i # j => store[G[i]] # store[G[j]]
            /\ (\A k \in 1..N : /\ Pattern(base, k) \notin outside
                                /\ Len(Pattern(base, k)) <= SlugCeiling)
               => \A k \in 1..N : store[G[k]] = Pattern(base, k)

C1_Witness ==
    /\ Len(log) = 3
    /\ \A e \in 1..3 : SlugText(obj[e]) = TextAB
    /\ store[log[1]] = <<"a", "-", "b">>
    /\ store[log[2]] = <<"a", "-", "b", "-", "2">>
    /\ store[log[3]] = <<"a", "-", "b", "-", "3">>

\* C2: under any interleaving of save() calls, no two rows of the table hold
\* the same slug.
C2_UniqueUnderConcurrency == NoDuplicateSlugs(store)

\* a step of e's save() that begins it with no slug and a text that
\* normalizes to the empty string
BlankSaveStep(e) ==
    /\ pc[e] = "idle"
    /\ obj[e].slug = <<>>
    /\ slugify(SlugText(obj[e])) = <<>>
    /\ <<pc[e], result[e], obj[e], loc[e]>>' # <<pc[e], result[e], obj[e], loc[e]>>

\* C7: a save() of an instance without slug whose text normalizes to the
\* empty string ends in ValueError, writes no row and leaves the table as it
\* was; and no row of the table ever holds an empty slug.
C7_BlankSlugRejected ==
    /\ [](\A p \in DOMAIN store : store[p] # <<>>)
    /\ [][\A e \in Ent : BlankSaveStep(e) =>
              /\ result'[e] = "ValueError"
              /\ pc'[e] = "idle"
              /\ store' = store
              /\ e \notin DOMAIN store']_vars

C7_Witness ==
    \E e \in Ent : /\ result[e] = "ValueError"
                   /\ SlugText(obj[e]) = TextBang
                   /\ store # EmptyStore

\* a step in which unique_slug assigns self.slug of e
AssignStep(e) == obj'[e].slug # obj[e].slug /\ pc[e] \in {"idle", "loop"}

\* the slug that suffix number k must give for a base
Suffixed(base, k) ==
    LET end == <<"-">> \o Str(k)
    IN  IF Len(base) + Len(end) > SlugCeiling
        THEN SubSeq(base, 1, TruncateTo - Len(end)) \o end
        ELSE base \o end

\* C9: for a base of at most 256 characters the slug unique_slug assigns is
\* at most 256 characters long and held by no row at that moment; a suffixed
\* slug is the base, cut to 200 - len(suffix) characters if base plus suffix
\* would exceed 256, followed by the suffix; and the suffix search ends:
\* every pass that does not leave the loop takes the next suffix number, and
\* that number never exceeds the number of rows of the table by more than 2.
C9_LengthAndTruncation ==
    /\ [][\A e \in Ent : AssignStep(e) =>
              /\ Len(slugify(SlugText(obj[e]))) <= SlugCeiling
                    => /\ Len(obj'[e].slug) <= SlugCeiling
                       /\ obj'[e].slug \notin Slugs(store)
              /\ pc[e] = "loop"
                    => obj'[e].slug = Suffixed(slugify(SlugText(obj[e])), loc[e].next - 1)]_vars
    /\ [][\A e \in Ent : (pc[e] = "loop" /\ loc'[e] # loc[e]) =>
              \/ pc'[e] # "loop"
              \/ loc'[e].next = loc[e].next + 1]_vars
    /\ [](\A e \in Ent : pc[e] = "loop" =>
              loc[e].next <= FirstSuffix + Cardinality(DOMAIN store))

C9_Witness ==
    \E e \in Ent :
        /\ e \in DOMAIN store
        /\ SlugText(obj[e]) = TextLong
        /\ store[e] = Rep("a", 197) \o <<"-", "1", "0">>
        /\ Len(store[e]) = 200

\* C10: a save() of an instance whose slug is not empty leaves the slug as
\* it is and writes it to the instance's row, whatever its name and the
\* table have become; and a slug regenerated for an already stored instance
\* whose slug was cleared is the slug of no other row.
C10_SlugStability ==
    /\ [][\A e \in Ent :
              /\ (obj[e].slug # <<>> /\ muts' = muts /\ pc[e] # "absent")
                    => obj'[e].slug = obj[e].slug
              /\ (pc[e] = "insert" /\ pc'[e] = "idle")
                    => (e \in DOMAIN store' /\ store'[e] = obj[e].slug)
              /\ (AssignStep(e) /\ e \in DOMAIN store)
                    => \A p \in DOMAIN store \ {e} : store[p] # obj'[e].slug]_vars
    /\ [](NoDuplicateSlugs(store))

C10_Witness ==
    /\ muts = 1
    /\ DOMAIN store = {1, 2}
    /\ obj[1].cls = "WithSlugText" /\ obj[1].name = TextAB
    /\ obj[1].slug = <<"a", "-", "b", "-", "3">>
    /\ store[1] = <<"a", "-", "b", "-", "3">>
    /\ store[2] = <<"a", "-", "b", "-", "2">>
    /\ result[1] = "saved"

----------------------------------------------------------------------------
(* Properties of the response shaper *)

\* the detail level a request asks for
RequestedShapeType == IF "shape_type" \in DOMAIN GET THEN GET["shape_type"] ELSE "simple"

\* the excludes parameter as sent ('' when absent), surrounding blanks dropped
RequestedExcludes == Strip(IF "excludes" \in DOMAIN GET THEN GET["excludes"] ELSE <<>>)

\* field f is an item of the comma-separated excludes list
NamedInExcludes(f) ==
    LET x == RequestedExcludes
    IN  \E i \in 1..Len(x) : /\ x[i] = f
                             /\ (i = 1 \/ x[i - 1] = ",")
                             /\ (i = Len(x) \/ x[i + 1] = ",")

ListDone == listRes # NotRun
DetailDone == detailRes # NotRun

Has(d, f) == f \in DOMAIN d

\* what the detail level alone demands of a shaped record
MutuallyExclusive(d, keptSimple, keptFull) ==
    /\ RequestedShapeType = "simple" => (~Has(d, "shape") /\ keptSimple)
    /\ RequestedShapeType = "full" => (~Has(d, "simple_shape") /\ keptFull)
    /\ RequestedShapeType = "none" => (~Has(d, "shape") /\ ~Has(d, "simple_shape"))

\* C3: in every list and detail response a record shaped with
\* simple (or no shape_type) has no shape and keeps simple_shape, with full
\* it has no simple_shape and keeps shape, with none it has neither.
C3_MutualExclusion ==
    /\ ListDone =>
          /\ listRes.status = "ok"
          /\ \A i \in 1..Len(listRes.objects) :
                MutuallyExclusive(listRes.objects[i],
                                  Has(listRes.objects[i], "simple_shape"),
                                  Has(listRes.objects[i], "shape"))
    /\ DetailDone =>
          /\ detailRes.status = "ok"
          /\ MutuallyExclusive(detailRes.data,
                               Has(detailRes.data, "simple_shape"),
                               Has(detailRes.data, "shape"))

\* C4: for the same request both shapers complete, and the detail shaper
\* leaves a record the fields the list shaper leaves the same record.
C4_ListDetailSameFields ==
    (ListDone /\ DetailDone) =>
        /\ listRes.status = "ok"
        /\ detailRes.status = "ok"
        /\ DOMAIN detailRes.data = DOMAIN listRes.objects[detailRes.of]

\* the fields the detail level drops
DroppedByShapeType ==
    (IF RequestedShapeType # "simple" THEN {"simple_shape"} ELSE {})
    \cup (IF RequestedShapeType # "full" THEN {"shape"} ELSE {})

\* C5: the list shaper raises nothing whatever excludes holds, removes from
\* every record exactly the named fields (besides those the detail level
\* drops), and leaves every other field of every record with its value.
C5_ExcludesRobust ==
    ListDone =>
        /\ listRes.status = "ok"
        /\ Len(listRes.objects) = Len(objects)
        /\ \A i \in 1..Len(objects) :
              /\ DOMAIN listRes.objects[i] =
                    {f \in DOMAIN objects[i] :
                        f \notin DroppedByShapeType /\ ~NamedInExcludes(f)}
              /\ \A f \in DOMAIN listRes.objects[i] :
                    listRes.objects[i][f] = objects[i][f]

\* C8: a shaper applied to a record it has already shaped completes without
\* error and gives the record it was given.
C8_Idempotent ==
    /\ listAgain # NotRun =>
          (listAgain.status = "ok" /\ listAgain.objects = listRes.objects)
    /\ detailAgain # NotRun =>
          (detailAgain.status = "ok" /\ detailAgain.data = detailRes.data)

----------------------------------------------------------------------------
(* Properties of the query translator *)

\* a request whose filters reach the near filter (lines 121-129) has been
\* handled, and near has three components
NearWasParsed ==
    /\ built # NotRun
    /\ "near" \in DOMAIN filters
    /\ "contains" \in DOMAIN filters => Len(Split(filters["contains"])) = 2
    /\ Len(Split(filters["near"])) = 3

NearRange == Split(filters["near"])[3]

StartsWithDigit(s) == s # <<>> /\ IsDigit(s[1])

\* C6: a near distance without leading digit ends build_filters in
\* InvalidFilterError; with leading digits, a plan that is built holds the
\* digits' value as magnitude and the rest as unit.
C6_MalformedNearRejected ==
    NearWasParsed =>
        /\ ~StartsWithDigit(NearRange) => built.status = "InvalidFilterError"
        /\ (StartsWithDigit(NearRange) /\ built.status = "ok") =>
              \E k \in 1..Len(NearRange) :
                  /\ \A j \in 1..k : IsDigit(NearRange[j])
                  /\ k = Len(NearRange) \/ ~IsDigit(NearRange[k + 1])
                  /\ built.orm.near.magnitude = IntOf(SubSeq(NearRange, 1, k))
                  /\ built.orm.near.unit = SubSeq(NearRange, k + 1, Len(NearRange))

====
